---- MODULE Spec2Model ----
(***************************************************************************)
(* Model of two pieces of the azure-cli repository:                        *)
(*   - storage/tests/test_commands.py : the recorded-fixture shortening    *)
(*     pass (_shorten_long_running_operations and                          *)
(*     _truncate_long_running_operation);                                  *)
(*   - acr/custom.py : the container-registry command functions.           *)
(***************************************************************************)
EXTENDS Integers, Sequences, FiniteSets, TLC

(***************************************************************************)
(* Bounds of the model.                                                    *)
(***************************************************************************)
MaxLen == 4
MaxLoads == 2

None == "None"

(***************************************************************************)
(* Container registry commands (acr/custom.py).                            *)
(*                                                                         *)
(* An optional Python value is a sequence: Nothing is None, Some(x) is x.  *)
(* The str built from a uuid is a sequence of characters; the strs the     *)
(* caller passes are strings.                                              *)
(***************************************************************************)
Nothing == <<>>
Some(x) == <<x>>
Get(o) == o[1]

\* The truth value Python gives an optional str: None and '' are false.
Truthy(o) == o # Nothing /\ Get(o) # ""

RegistryNames == {"reg1"}
Groups == {"rg1", "rg2"}
Locations == {"westus"}
StorageAccountNames == {"", "sa1"}
TagSets == {"env=dev", "env=prod"}
AdminStrings == {"true", "false", "True", ""}

HexDigits == <<"0", "1", "2", "3", "4", "5", "6", "7", "8", "9", "a", "b", "c", "d", "e", "f">>
UuidSeeds == { <<1, 0>>, <<7, 3>> }

\* str(uuid.uuid4()) : 8-4-4-4-12 hexadecimal digits, version digit 4, variant 8..b.
Uuid4Str(seed) ==
    [i \in 1..36 |->
        IF i \in {9, 14, 19, 24} THEN "-"
        ELSE IF i = 15 THEN "4"
        ELSE IF i = 20 THEN HexDigits[9 + (seed[2] % 4)]
        ELSE HexDigits[((seed[1] * i + seed[2]) % 16) + 1]]

\* s.replace(old, '') for a one-character old.
StrRemove(s, old) == SelectSeq(s, LAMBDA c : c # old)

\* s[:n]
StrPrefix(s, n) == SubSeq(s, 1, IF Len(s) < n THEN Len(s) ELSE n)

StorageNameLen == 24

\* Line 66, were the hyphens left in.
GeneratedStorageAccountNameDashed(seed) == StrPrefix(Uuid4Str(seed), StorageNameLen)

\* Line 66.
GeneratedStorageAccountName(seed) == StrPrefix(StrRemove(Uuid4Str(seed), "-"), StorageNameLen)

VARIABLES
    registries,  \* the registries the management service holds, by name
    cmd,         \* the command run last, with its arguments
    calls,       \* the collaborator calls that command made, in order
    ret          \* what that command returned, or that it raised

avars == <<registries, cmd, calls, ret>>

Call(fn, args, ok, value) == [fn |-> fn, args |-> args, ok |-> ok, value |-> value]
Outcome(st, cs, ok, value) == [registries |-> st, calls |-> cs, ok |-> ok, value |-> value]

\* What the service tells about a registry: the storage account without its key.
Properties(reg) ==
    [tags |-> reg.tags, admin_user_enabled |-> reg.admin_user_enabled,
     storage_account |-> Some([name |-> reg.storage_account_name, access_key |-> Nothing]),
     location |-> reg.location]

Exists(st, rg, name) == st[name] # Nothing /\ Get(st[name]).group = rg

\* _utils.get_resource_group_name_by_registry_name
get_resource_group_name_by_registry_name(st, registry_name) ==
    IF st[registry_name] = Nothing
      THEN Call("get_resource_group_name_by_registry_name", <<registry_name>>, FALSE, Nothing)
      ELSE Call("get_resource_group_name_by_registry_name", <<registry_name>>, TRUE,
                Get(st[registry_name]).group)

\* _utils.get_access_key_by_storage_account_name
get_access_key_by_storage_account_name(storage_account_name) ==
    Call("get_access_key_by_storage_account_name", <<storage_account_name>>, TRUE,
         [key_of |-> storage_account_name])

\* client.get_properties
client_get_properties(st, rg, name) ==
    IF Exists(st, rg, name)
      THEN Call("get_properties", <<rg, name>>, TRUE, Properties(Get(st[name])))
      ELSE Call("get_properties", <<rg, name>>, FALSE, Nothing)

\* StorageAccountProperties(name, access_key)
StorageAccountProperties(name, access_key) == [name |-> name, access_key |-> Some(access_key)]

\* The resource group, were it looked up whether or not one is given.
ResolveGroupAlways(st, registry_name, resource_group_name) ==
    LET c == get_resource_group_name_by_registry_name(st, registry_name)
    IN  [calls |-> <<c>>, ok |-> c.ok,
         group |-> IF resource_group_name = Nothing THEN c.value ELSE Get(resource_group_name)]

\* `if resource_group_name is None: resource_group_name = get_resource_group_...`
\* gives the calls made and the group to use (none when the lookup raised).
ResolveGroup(st, registry_name, resource_group_name) ==
    IF resource_group_name = Nothing
      THEN LET c == get_resource_group_name_by_registry_name(st, registry_name)
           IN  [calls |-> <<c>>, ok |-> c.ok, group |-> c.value]
      ELSE [calls |-> <<>>, ok |-> TRUE, group |-> Get(resource_group_name)]

acr_check_name(st, registry_name) ==
    Outcome(st, << Call("check_name_availability", <<registry_name>>, TRUE, st[registry_name] = Nothing) >>,
            TRUE, st[registry_name] = Nothing)

acr_list(st, resource_group_name) ==
    IF Truthy(resource_group_name)
      THEN LET found == { n \in RegistryNames : Exists(st, Get(resource_group_name), n) }
           IN  Outcome(st, << Call("list_by_resource_group", <<Get(resource_group_name)>>, TRUE, found) >>,
                       TRUE, found)
      ELSE LET found == { n \in RegistryNames : st[n] # Nothing }
           IN  Outcome(st, << Call("list", <<>>, TRUE, found) >>, TRUE, found)

\* The service accepts a new registry unless its name is held in another group.
Accepts(st, rg, name) == st[name] = Nothing \/ Get(st[name]).group = rg

Stored(rg, location, storage_account_name, admin) ==
    Some([group |-> rg, location |-> location, storage_account_name |-> storage_account_name,
          admin_user_enabled |-> admin, tags |-> Nothing])

acr_create(st, registry_name, resource_group_name, location, storage_account_name, enable_admin, seed) ==
    IF storage_account_name = Nothing
      THEN LET generated == GeneratedStorageAccountName(seed)
               ok == Accepts(st, resource_group_name, registry_name)
               deploy == Call("arm_deploy_template",
                              <<resource_group_name, registry_name, location, generated, enable_admin>>,
                              TRUE, Nothing)
               wait == Call("LongRunningOperation", <<>>, ok, Nothing)
               st2 == [st EXCEPT ![registry_name] =
                          Stored(resource_group_name, location, generated, enable_admin)]
               getp == client_get_properties(st2, resource_group_name, registry_name)
           IN  IF ok THEN Outcome(st2, <<deploy, wait, getp>>, getp.ok, getp.value)
                     ELSE Outcome(st, <<deploy, wait>>, FALSE, Nothing)
      ELSE LET name == Get(storage_account_name)
               key == get_access_key_by_storage_account_name(name)
               registry == [location |-> location,
                            storage_account |-> StorageAccountProperties(name, key.value),
                            admin_user_enabled |-> enable_admin]
               ok == Accepts(st, resource_group_name, registry_name)
               st2 == [st EXCEPT ![registry_name] =
                          Stored(resource_group_name, location, name, enable_admin)]
               value == IF ok THEN Properties(Get(st2[registry_name])) ELSE Nothing
               create == Call("create_or_update", <<resource_group_name, registry_name, registry>>,
                              ok, value)
           IN  Outcome(IF ok THEN st2 ELSE st, <<key, create>>, ok, value)

acr_delete(st, registry_name, resource_group_name) ==
    LET r == ResolveGroup(st, registry_name, resource_group_name)
    IN  IF ~r.ok THEN Outcome(st, r.calls, FALSE, Nothing)
        ELSE LET st2 == IF Exists(st, r.group, registry_name)
                          THEN [st EXCEPT ![registry_name] = Nothing] ELSE st
             IN  Outcome(st2, r.calls \o << Call("delete", <<r.group, registry_name>>, TRUE, Nothing) >>,
                         TRUE, Nothing)

acr_show(st, registry_name, resource_group_name) ==
    LET r == ResolveGroup(st, registry_name, resource_group_name)
    IN  IF ~r.ok THEN Outcome(st, r.calls, FALSE, Nothing)
        ELSE LET getp == client_get_properties(st, r.group, registry_name)
             IN  Outcome(st, r.calls \o <<getp>>, getp.ok, getp.value)

\* RegistryUpdateParameters(tags, admin_user_enabled, storage_account)
RegistryUpdateParameters(tags, admin_user_enabled, storage_account) ==
    [tags |-> tags, admin_user_enabled |-> admin_user_enabled, storage_account |-> storage_account]

\* Gives the calls made and, unless one raised, the instance to update.
acr_update_get(st, registry_name, resource_group_name) ==
    LET r == ResolveGroup(st, registry_name, resource_group_name)
    IN  IF ~r.ok THEN [calls |-> r.calls, ok |-> FALSE, instance |-> Nothing]
        ELSE LET getp == client_get_properties(st, r.group, registry_name)
             IN  IF ~getp.ok THEN [calls |-> r.calls \o <<getp>>, ok |-> FALSE, instance |-> Nothing]
                 ELSE [calls |-> r.calls \o <<getp>>, ok |-> TRUE,
                       instance |-> RegistryUpdateParameters(getp.value.tags,
                                                             getp.value.admin_user_enabled,
                                                             getp.value.storage_account)]

\* Lines 142-143, were the string compared without regard to case.
UpdatedAdminFlagAnyCase(instance, admin_user_enabled) ==
    IF admin_user_enabled # Nothing THEN Get(admin_user_enabled) \in {"true", "True", "TRUE"}
    ELSE instance.admin_user_enabled

\* Lines 142-143 : the flag of the instance after them.
UpdatedAdminFlag(instance, admin_user_enabled) ==
    IF admin_user_enabled # Nothing THEN Get(admin_user_enabled) = "true"
    ELSE instance.admin_user_enabled

\* Lines 148-155 : the storage account of the instance after them.
UpdatedStorageAccount(instance, storage_account_name) ==
    IF Truthy(storage_account_name)
      THEN Some(StorageAccountProperties(
                    Get(storage_account_name),
                    get_access_key_by_storage_account_name(Get(storage_account_name)).value))
      ELSE Nothing

acr_update_custom(instance, admin_user_enabled, storage_account_name, tags) ==
    [calls |-> IF storage_account_name # Nothing
                 THEN << get_access_key_by_storage_account_name(Get(storage_account_name)) >>
                 ELSE <<>>,
     instance |-> RegistryUpdateParameters(
                      IF tags # Nothing THEN tags ELSE instance.tags,
                      UpdatedAdminFlag(instance, admin_user_enabled),
                      UpdatedStorageAccount(instance, storage_account_name))]

\* client.update : the service changes what the parameters name.
client_update(st, rg, name, parameters) ==
    IF ~Exists(st, rg, name) THEN [call |-> Call("update", <<rg, name, parameters>>, FALSE, Nothing),
                                   registries |-> st]
    ELSE LET old == Get(st[name])
             new == [old EXCEPT
                        !.tags = IF parameters.tags # Nothing THEN parameters.tags ELSE @,
                        !.admin_user_enabled = parameters.admin_user_enabled,
                        !.storage_account_name =
                            IF parameters.storage_account # Nothing
                              THEN Get(parameters.storage_account).name ELSE @]
         IN  [call |-> Call("update", <<rg, name, parameters>>, TRUE, Properties(new)),
              registries |-> [st EXCEPT ![name] = Some(new)]]

acr_update_set(st, registry_name, resource_group_name, parameters) ==
    LET r == ResolveGroup(st, registry_name, resource_group_name)
    IN  IF ~r.ok THEN Outcome(st, r.calls, FALSE, Nothing)
        ELSE LET u == client_update(st, r.group, registry_name, parameters)
             IN  Outcome(u.registries, r.calls \o <<u.call>>, u.call.ok, u.call.value)

\* cli_generic_update_command : getter, then custom_function, then setter.
generic_update(st, registry_name, resource_group_name, admin_user_enabled, storage_account_name, tags) ==
    LET g == acr_update_get(st, registry_name, resource_group_name)
    IN  IF ~g.ok THEN Outcome(st, g.calls, FALSE, Nothing)
        ELSE LET c == acr_update_custom(g.instance, admin_user_enabled, storage_account_name, tags)
                 s == acr_update_set(st, registry_name, resource_group_name, c.instance)
             IN  Outcome(s.registries, g.calls \o c.calls \o s.calls, s.ok, s.value)

(***************************************************************************)
(* Recorded interactions.  On disk an interaction is a request/response    *)
(* pair; in memory (after yaml.load) it is a Python dict object, whose     *)
(* identity is kept in the field id.  Python compares dicts by value, so   *)
(* list.index and list.remove look at Value(x) and never at x.id.          *)
(***************************************************************************)
Requests ==
    { [method |-> "PUT",  lease |-> <<>>],
      [method |-> "PUT",  lease |-> <<"break">>],
      [method |-> "GET",  lease |-> <<>>],
      [method |-> "POST", lease |-> <<>>] }

Responses ==
    { [code |-> 202, body |-> "accepted"],
      [code |-> 200, body |-> "ok"],
      [code |-> 201, body |-> "created"] }

Recorded == [request : Requests, response : Responses]

Fixtures == UNION { [1..n -> Recorded] : n \in 0..MaxLen }

VARIABLES
    isfile,      \* os.path.isfile(yaml_path)
    file,        \* the interactions stored in the fixture file
    input,       \* the interactions the file held when the current pass opened it
    data,        \* data['interactions'] of the pass in progress
    idx,         \* position of the list iterator of the loop at line 33
    pc,          \* where _shorten_long_running_operations stands
    loads        \* how many times the test module has been loaded

fvars == <<isfile, file, input, data, idx, pc, loads>>

Value(x) == [request |-> x.request, response |-> x.response]

\* yaml.load : every interaction becomes a fresh object.
yaml_load(f) == [k \in 1..Len(f) |-> [id |-> k, request |-> f[k].request, response |-> f[k].response]]

\* yaml.dump : only the values are written.
yaml_dump(d) == [k \in 1..Len(d) |-> Value(d[k])]

Has(xs, v) == \E k \in 1..Len(xs) : Value(xs[k]) = v

\* list.index(v) : the first position holding an element equal to v.
ListIndex(xs, v) ==
    CHOOSE k \in 1..Len(xs) : Value(xs[k]) = v /\ \A j \in 1..(k-1) : Value(xs[j]) # v

\* list.remove(v) : drops the first element equal to v.
ListRemove(xs, v) ==
    LET k == ListIndex(xs, v)
    IN  SubSeq(xs, 1, k-1) \o SubSeq(xs, k+1, Len(xs))

\* lro_item['response'] = resp : the object lroId itself is changed.
SetResponse(xs, lroId, resp) ==
    [k \in 1..Len(xs) |-> IF xs[k].id = lroId THEN [xs[k] EXCEPT !.response = resp] ELSE xs[k]]

\* The scan, were it to take the first GET it meets as the final one.
RECURSIVE TruncateScanFirstGet(_, _, _, _)
TruncateScanFirstGet(xs, rest, k, lroId) ==
    IF k > Len(rest) THEN [interactions |-> xs, raised |-> FALSE]
    ELSE LET item == rest[k]
         IN  IF item.request.method = "GET"
               THEN LET ys == SetResponse(xs, lroId, item.response)
                    IN  IF Has(ys, Value(item))
                          THEN [interactions |-> ListRemove(ys, Value(item)), raised |-> FALSE]
                          ELSE [interactions |-> ys, raised |-> TRUE]
             ELSE TruncateScanFirstGet(xs, rest, k+1, lroId)

\* The scan, were it to drop whatever answered 202 and not the GETs alone.
RECURSIVE TruncateScanAny202(_, _, _, _)
TruncateScanAny202(xs, rest, k, lroId) ==
    IF k > Len(rest) THEN [interactions |-> xs, raised |-> FALSE]
    ELSE LET item == rest[k]
             method == item.request.method
             code == item.response.code
         IN  IF code = 202
               THEN IF Has(xs, Value(item))
                      THEN TruncateScanAny202(ListRemove(xs, Value(item)), rest, k+1, lroId)
                      ELSE [interactions |-> xs, raised |-> TRUE]
             ELSE IF method = "GET" /\ code # 202
               THEN LET ys == SetResponse(xs, lroId, item.response)
                    IN  IF Has(ys, Value(item))
                          THEN [interactions |-> ListRemove(ys, Value(item)), raised |-> FALSE]
                          ELSE [interactions |-> ys, raised |-> TRUE]
             ELSE TruncateScanAny202(xs, rest, k+1, lroId)

\* The loop of lines 15-23 over the copy `rest` of the tail, from its k-th item.
RECURSIVE TruncateScan(_, _, _, _)
TruncateScan(xs, rest, k, lroId) ==
    IF k > Len(rest) THEN [interactions |-> xs, raised |-> FALSE]
    ELSE LET item == rest[k]
             method == item.request.method
             code == item.response.code
         IN  IF method = "GET" /\ code = 202
               THEN IF Has(xs, Value(item))
                      THEN TruncateScan(ListRemove(xs, Value(item)), rest, k+1, lroId)
                      ELSE [interactions |-> xs, raised |-> TRUE]
             ELSE IF method = "GET" /\ code # 202
               THEN LET ys == SetResponse(xs, lroId, item.response)
                    IN  IF Has(ys, Value(item))
                          THEN [interactions |-> ListRemove(ys, Value(item)), raised |-> FALSE]
                          ELSE [interactions |-> ys, raised |-> TRUE]
             ELSE TruncateScan(xs, rest, k+1, lroId)

\* _truncate_long_running_operation(data, lro_item), lro_item being the object lroId.
TruncateLongRunningOperation(xs, lroId) ==
    LET lro_item == xs[CHOOSE k \in 1..Len(xs) : xs[k].id = lroId]
        lro_index == ListIndex(xs, Value(lro_item))
    IN  TruncateScan(xs, SubSeq(xs, lro_index + 1, Len(xs)), 1, lroId)

\* Lines 37-38.
LeaseAction(item) == IF item.request.lease # <<>> THEN item.request.lease[1] ELSE None

\* The condition of line 39, were the lease action not looked at.
IsLongRunningAnyLease(item) ==
    item.request.method = "PUT" /\ item.response.code = 202

\* The condition of line 39.
IsLongRunning(item) ==
    item.request.method = "PUT" /\ item.response.code = 202 /\ LeaseAction(item) # "break"

FInit ==
    /\ isfile \in BOOLEAN
    /\ file \in (IF isfile THEN Fixtures ELSE {<<>>})
    /\ input = file
    /\ data = <<>>
    /\ idx = 0
    /\ pc = "start"
    /\ loads = 1

\* Lines 28-30 : no recording, nothing to do.
ShortenNoFile ==
    /\ pc = "start"
    /\ ~isfile
    /\ pc' = "done"
    /\ UNCHANGED <<isfile, file, input, data, idx, loads, avars>>

\* Lines 31-32 : open and parse the recording.
ShortenOpen ==
    /\ pc = "start"
    /\ isfile
    /\ input' = file
    /\ data' = yaml_load(file)
    /\ idx' = 0
    /\ pc' = "loop"
    /\ UNCHANGED <<isfile, file, loads, avars>>

\* One iteration of the loop of line 33 on a long running operation (line 40).
VisitLongRunning ==
    /\ pc = "loop"
    /\ idx < Len(data)
    /\ IsLongRunning(data[idx + 1])
    /\ LET r == TruncateLongRunningOperation(data, data[idx + 1].id)
       IN  /\ data' = r.interactions
           /\ pc' = IF r.raised THEN "raised" ELSE "loop"
    /\ idx' = idx + 1
    /\ UNCHANGED <<isfile, file, input, loads, avars>>

\* One iteration of the loop of line 33 on any other interaction.
VisitOther ==
    /\ pc = "loop"
    /\ idx < Len(data)
    /\ ~IsLongRunning(data[idx + 1])
    /\ idx' = idx + 1
    /\ UNCHANGED <<isfile, file, input, data, pc, loads, avars>>

\* Lines 41-43 : the iterator is exhausted, the file is rewritten.
ShortenWrite ==
    /\ pc = "loop"
    /\ idx >= Len(data)
    /\ file' = yaml_dump(data)
    /\ pc' = "done"
    /\ UNCHANGED <<isfile, input, data, idx, loads, avars>>

\* Lines 48-50 run again on the next load of the test module.
LoadAgain ==
    /\ pc = "done"
    /\ loads < MaxLoads
    /\ loads' = loads + 1
    /\ pc' = "start"
    /\ UNCHANGED <<isfile, file, input, data, idx, avars>>

FNext ==
    \/ ShortenNoFile
    \/ ShortenOpen
    \/ VisitLongRunning
    \/ VisitOther
    \/ ShortenWrite
    \/ LoadAgain

(***************************************************************************)
(* The commands as actions: each runs one command to its end.              *)
(***************************************************************************)
AInit ==
    /\ registries = [n \in RegistryNames |-> Nothing]
    /\ cmd = [fn |-> "none"]
    /\ calls = <<>>
    /\ ret = [ok |-> TRUE, value |-> Nothing]

Ran(c, r) ==
    /\ cmd' = c
    /\ registries' = r.registries
    /\ calls' = r.calls
    /\ ret' = [ok |-> r.ok, value |-> r.value]
    /\ UNCHANGED fvars

OptGroups == {Nothing} \cup { Some(g) : g \in Groups }

AcrCheckName ==
    \E n \in RegistryNames :
        Ran([fn |-> "check-name", registry_name |-> n], acr_check_name(registries, n))

AcrList ==
    \E g \in OptGroups \cup {Some("")} :
        Ran([fn |-> "list", resource_group_name |-> g], acr_list(registries, g))

AcrCreate ==
    \E n \in RegistryNames, g \in Groups, l \in Locations,
       s \in {Nothing} \cup { Some(x) : x \in StorageAccountNames },
       a \in BOOLEAN, seed \in UuidSeeds :
        Ran([fn |-> "create", registry_name |-> n, resource_group_name |-> g, location |-> l,
             storage_account_name |-> s, enable_admin |-> a],
            acr_create(registries, n, g, l, s, a, seed))

AcrDelete ==
    \E n \in RegistryNames, g \in OptGroups :
        Ran([fn |-> "delete", registry_name |-> n, resource_group_name |-> g],
            acr_delete(registries, n, g))

AcrShow ==
    \E n \in RegistryNames, g \in OptGroups :
        Ran([fn |-> "show", registry_name |-> n, resource_group_name |-> g],
            acr_show(registries, n, g))

AcrUpdate ==
    \E n \in RegistryNames, g \in OptGroups,
       a \in {Nothing} \cup { Some(x) : x \in AdminStrings },
       s \in {Nothing} \cup { Some(x) : x \in StorageAccountNames },
       t \in {Nothing} \cup { Some(x) : x \in TagSets } :
        Ran([fn |-> "update", registry_name |-> n, resource_group_name |-> g,
             admin_user_enabled |-> a, storage_account_name |-> s, tags |-> t],
            generic_update(registries, n, g, a, s, t))

ANext ==
    \/ AcrCheckName
    \/ AcrList
    \/ AcrCreate
    \/ AcrDelete
    \/ AcrShow
    \/ AcrUpdate

FIdle ==
    /\ isfile = FALSE /\ file = <<>> /\ input = <<>> /\ data = <<>>
    /\ idx = 0 /\ pc = "start" /\ loads = 1

vars == <<fvars, avars>>

\* The registry commands, the fixture pass left aside.
InitAcr == AInit /\ FIdle

SpecAcr == InitAcr /\ [][ANext]_vars

\* The fixture pass, no registry command run.
InitFixture == FInit /\ AInit

SpecFixture == InitFixture /\ [][FNext]_vars

(***************************************************************************)
(* Properties of the fixture shortening pass.                              *)
(***************************************************************************)
IsGet(x) == x.request.method = "GET"
IsPolling(x) == IsGet(x) /\ x.response.code = 202
IsTerminal(x) == IsGet(x) /\ x.response.code # 202
IsLeaseBreak(x) ==
    x.request.method = "PUT" /\ x.response.code = 202 /\ x.request.lease = <<"break">>
IsOperation(x) ==
    x.request.method = "PUT" /\ x.response.code = 202 /\ x.request.lease # <<"break">>

PassDone == pc = "done" /\ isfile
Survives(j) == \E k \in 1..Len(data) : data[k].id = j
SurvivesUntouched(j) == \E k \in 1..Len(data) : data[k].id = j /\ Value(data[k]) = input[j]

\* A PUT/202 that is no lease break, then polling GETs only, then one final GET.
OneOperation(f) ==
    /\ Len(f) >= 2
    /\ IsOperation(f[1])
    /\ IsTerminal(f[Len(f)])
    /\ \A k \in 2..(Len(f) - 1) : IsPolling(f[k])

\* C2 : a recording made of one long running operation (a PUT/202 without lease
\* break, k >= 0 polling GET/202, one GET with another code) is rewritten to the
\* single PUT, its request as recorded and its response that of the final GET.
C2_Collapse ==
    (PassDone /\ OneOperation(input)) =>
        file = << [request |-> input[1].request, response |-> input[Len(input)].response] >>

C2_Witness ==
    /\ PassDone /\ loads = 1
    /\ OneOperation(input) /\ Len(input) = 4
    /\ input[4].response.body = "created"
    /\ Len(file) = 1

\* C3 as stated : a lease-break PUT/202 and every interaction after it are still
\* in the list, with the response they had.
C3_Original ==
    PassDone =>
        \A k \in 1..Len(input) : IsLeaseBreak(input[k]) =>
            \A j \in k..Len(input) : SurvivesUntouched(j)

\* C3 amended : a lease-break PUT/202 is itself never removed nor rewritten, and
\* a recording holding no PUT/202 other than lease breaks is left as it was.
C3_LeaseBreakKept ==
    PassDone =>
        /\ \A k \in 1..Len(input) : IsLeaseBreak(input[k]) => SurvivesUntouched(k)
        /\ (\A k \in 1..Len(input) : ~IsOperation(input[k])) => file = input

C3_Witness ==
    /\ PassDone /\ loads = 1
    /\ Len(input) = 3
    /\ IsLeaseBreak(input[1]) /\ IsPolling(input[2]) /\ IsTerminal(input[3])
    /\ file = input

\* C4 : truncating a PUT/202 that has no GET with a code other than 202 after it
\* leaves the list as it was.
C4_NoTerminalNoChange ==
    [][ ( /\ pc = "loop" /\ idx < Len(data)
          /\ IsOperation(data[idx + 1])
          /\ \A j \in (idx + 2)..Len(data) : ~IsTerminal(data[j]) )
        => data' = data ]_vars

\* C5 : what is left of the list is in the recorded order, with the recorded
\* requests, and with the recorded responses except on truncated PUTs; what is
\* gone was a GET.
C5_OrderKept ==
    (pc \in {"loop", "done"} /\ isfile) =>
        /\ \A i, j \in 1..Len(data) : i < j => data[i].id < data[j].id
        /\ \A k \in 1..Len(data) :
              /\ data[k].id \in 1..Len(input)
              /\ data[k].request = input[data[k].id].request
              /\ \/ data[k].response = input[data[k].id].response
                 \/ IsOperation(input[data[k].id])
        /\ \A j \in 1..Len(input) : ~Survives(j) => IsGet(input[j])

C5_Witness ==
    /\ PassDone /\ loads = 1
    /\ Len(input) = 4 /\ Len(data) = 2
    /\ data[1].id = 1 /\ data[1].response # input[1].response
    /\ data[2].id = 3 /\ ~IsGet(data[2])

\* C9 : truncating the PUT at some position changes nothing before that position,
\* and the PUT stays where it is.
C9_ScansForward ==
    [][ ( /\ pc = "loop" /\ idx < Len(data)
          /\ IsOperation(data[idx + 1]) )
        => /\ Len(data') >= idx + 1
           /\ SubSeq(data', 1, idx) = SubSeq(data, 1, idx)
           /\ data'[idx + 1].id = data[idx + 1].id ]_vars

\* C10 : a second pass over a shortened recording changes nothing.
C10_Idempotent ==
    (PassDone /\ loads >= 2) => file = input
(***************************************************************************)
(* Properties of the registry commands.                                    *)
(***************************************************************************)
CallsOf(fn) == SelectSeq(calls, LAMBDA c : c.fn = fn)
Made(fn) == Len(CallsOf(fn))

\* An update that went as far as client.update: what get_properties gave and
\* the parameters handed to client.update.
UpdateSubmitted == cmd.fn = "update" /\ Made("update") = 1 /\ Made("get_properties") = 1
Fetched == CallsOf("get_properties")[1].value
Submitted == CallsOf("update")[1].args[3]

\* C1 : an update that names tags only submits the admin flag and the storage
\* account that get_properties gave, and the tags named.
C1_OnlyTagsChange ==
    ( /\ UpdateSubmitted
      /\ cmd.admin_user_enabled = Nothing
      /\ cmd.storage_account_name = Nothing
      /\ cmd.tags # Nothing )
    => /\ Submitted.admin_user_enabled = Fetched.admin_user_enabled
       /\ Submitted.storage_account = Fetched.storage_account
       /\ Submitted.tags = cmd.tags

\* C8 : the string 'true' submits the flag true, any other string submits it
\* false, and no string submits the flag get_properties gave.
C8_AdminFlag ==
    UpdateSubmitted =>
        Submitted.admin_user_enabled =
            IF cmd.admin_user_enabled = Nothing THEN Fetched.admin_user_enabled
            ELSE (cmd.admin_user_enabled = Some("true"))

C8_Witness ==
    /\ UpdateSubmitted
    /\ cmd.admin_user_enabled = Some("True")
    /\ Fetched.admin_user_enabled = TRUE
    /\ Submitted.admin_user_enabled = FALSE

\* C6 : show and delete without a resource group look the group up once, first,
\* and hand the group found to the one client call that follows; with a resource
\* group they make the client call alone.
C6_OneLookupFirst ==
    cmd.fn \in {"show", "delete"} =>
        LET client == IF cmd.fn = "show" THEN "get_properties" ELSE "delete"
        IN  IF cmd.resource_group_name = Nothing
              THEN /\ Made("get_resource_group_name_by_registry_name") = 1
                   /\ calls[1].fn = "get_resource_group_name_by_registry_name"
                   /\ calls[1].args = <<cmd.registry_name>>
                   /\ IF calls[1].ok
                        THEN /\ Len(calls) = 2
                             /\ calls[2].fn = client
                             /\ calls[2].args = <<calls[1].value, cmd.registry_name>>
                        ELSE Len(calls) = 1 /\ ~ret.ok
              ELSE /\ Len(calls) = 1
                   /\ calls[1].fn = client
                   /\ calls[1].args = <<Get(cmd.resource_group_name), cmd.registry_name>>

C6_Witness ==
    /\ cmd.fn = "delete"
    /\ cmd.resource_group_name = Nothing
    /\ Len(calls) = 2
    /\ calls[2].args = <<"rg2", "reg1">>
    /\ registries["reg1"] = Nothing

AlphaNumeric ==
    { "0", "1", "2", "3", "4", "5", "6", "7", "8", "9",
      "a", "b", "c", "d", "e", "f", "g", "h", "i", "j", "k", "l", "m",
      "n", "o", "p", "q", "r", "s", "t", "u", "v", "w", "x", "y", "z",
      "A", "B", "C", "D", "E", "F", "G", "H", "I", "J", "K", "L", "M",
      "N", "O", "P", "Q", "R", "S", "T", "U", "V", "W", "X", "Y", "Z" }

\* C7 : create without a storage account name deploys the template with a name
\* of 24 letters and digits, waits, reads the registry back, and never calls
\* create_or_update; create with a name calls create_or_update and never
\* deploys the template.
C7_CreatePaths ==
    cmd.fn = "create" =>
        IF cmd.storage_account_name = Nothing
          THEN /\ Made("create_or_update") = 0
               /\ Made("arm_deploy_template") = 1
               /\ Len(calls) >= 2
               /\ calls[1].fn = "arm_deploy_template"
               /\ Len(calls[1].args[4]) = 24
               /\ \A i \in 1..Len(calls[1].args[4]) : calls[1].args[4][i] \in AlphaNumeric
               /\ calls[2].fn = "LongRunningOperation"
               /\ IF calls[2].ok
                    THEN Len(calls) = 3 /\ calls[3].fn = "get_properties"
                    ELSE Len(calls) = 2 /\ ~ret.ok
          ELSE /\ Made("arm_deploy_template") = 0
               /\ Made("create_or_update") = 1
               /\ calls[2].args[3].storage_account.name = Get(cmd.storage_account_name)

C7_Witness ==
    /\ cmd.fn = "create"
    /\ cmd.storage_account_name = Nothing
    /\ Len(calls) = 3
    /\ ret.ok
    /\ registries[cmd.registry_name] # Nothing
    /\ Get(registries[cmd.registry_name]).storage_account_name = calls[1].args[4]
====
